---- MODULE Spec2Model ----
(***************************************************************************)
(* Model of src/utils/mathUtils.ts: the expression evaluator, the single   *)
(* problem generator, the problem set generator and the rating calculator. *)
(*                                                                         *)
(* JavaScript numbers are modelled as exact rationals <<n, d>> in lowest   *)
(* terms with d > 0; d = 0 stands for a non-finite value (Infinity, NaN).  *)
(* Operands are integers (Math.floor of a scaled random draw).  The binary  *)
(* rounding of doubles is not modelled: quotients are exact.               *)
(***************************************************************************)
EXTENDS Integers, Sequences, FiniteSets, TLC

VARIABLES
  config,       \* the QuizConfig handed to generateProblemSet
  pc,           \* position in generateProblemSet
  problems,     \* generateProblemSet: problems
  seen,         \* generateProblemSet: seen
  setAttempts,  \* generateProblemSet: attempts
  fillCalls,    \* number of generateSingleProblem calls made by the fill loop
  gpc,          \* position in generateSingleProblem
  attempts,     \* generateSingleProblem: attempts
  rejected,     \* number of candidates that hit a `continue` in this call
  ret,          \* value returned by the last generateSingleProblem call
  ev,           \* evaluator harness: arguments, their originals, outputs
  rt            \* rating harness: arguments and returned grade

vars == <<config, pc, problems, seen, setAttempts, fillCalls,
          gpc, attempts, rejected, ret, ev, rt>>

genVars == <<config, pc, problems, seen, setAttempts, fillCalls,
             gpc, attempts, rejected, ret>>

----------------------------------------------------------------------------
(* Bounds of the model *)

MaxLen == 3        \* longest operand sequence given to the evaluator harness
EvalNeg == 1       \* evaluator harness operands range over -EvalNeg..EvalMax
EvalMax == 4
MaxQuantity == 2   \* config.quantity ranges over 0..MaxQuantity
MaxTotal == 10     \* rating harness: total in 1..MaxTotal, score in 0..MaxTotal
MaxAvg == 10       \* rating harness: elapsed seconds in 0..MaxAvg*MaxTotal

----------------------------------------------------------------------------
(* Numbers *)

Abs(n) == IF n < 0 THEN -n ELSE n

Sign(n) == IF n < 0 THEN -1 ELSE IF n > 0 THEN 1 ELSE 0

RECURSIVE GCD(_, _)
GCD(a, b) == IF b = 0 THEN a ELSE GCD(b, a % b)

Norm(n, d) ==
  IF d = 0 THEN <<Sign(n), 0>>
  ELSE LET g == GCD(Abs(n), Abs(d))
           s == IF d < 0 THEN -1 ELSE 1
       IN  <<(s * n) \div g, (s * d) \div g>>

Num(i) == <<i, 1>>

Zero == Num(0)

IsFinite(x) == x[2] # 0

RAdd(a, b) == Norm(a[1] * b[2] + b[1] * a[2], a[2] * b[2])

RSub(a, b) == Norm(a[1] * b[2] - b[1] * a[2], a[2] * b[2])

RMul(a, b) == Norm(a[1] * b[1], a[2] * b[2])

RDiv(a, b) == Norm(a[1] * b[2], a[2] * b[1])

RLess(a, b) == IsFinite(a) /\ IsFinite(b) /\ a[1] * b[2] < b[1] * a[2]

\* Math.round: the nearest integer, halves towards +Infinity
MathRound(x) ==
  IF ~IsFinite(x) THEN x ELSE Num((2 * x[1] + x[2]) \div (2 * x[2]))

NumberIsInteger(x) == x[2] = 1

----------------------------------------------------------------------------
(* evaluateExpressionExtended *)

Operators == {"addition", "subtraction", "multiplication", "division"}

\* Array.prototype.splice(i, n, item) on a 1-based sequence
Splice(s, i, n, item) ==
  SubSeq(s, 1, i - 1) \o <<item>> \o SubSeq(s, i + n, Len(s))

\* Array.prototype.splice(i, 1)
SpliceOut(s, i) == SubSeq(s, 1, i - 1) \o SubSeq(s, i + 1, Len(s))

\* res of one multiply/divide reduction
DivideNoGuard(op, n1, n2) ==
  IF op = "multiplication" THEN RMul(n1, n2) ELSE RDiv(n1, n2)

Reduce(op, n1, n2) ==
  IF op = "multiplication" THEN RMul(n1, n2)
  ELSE IF n2 # Zero THEN RDiv(n1, n2) ELSE Zero

\* Pass 1 with the scan index never stepped back after a reduction
RECURSIVE Pass1Skip(_, _, _)
Pass1Skip(currentNumbers, currentOps, i) ==
  IF i > Len(currentOps) THEN [numbers |-> currentNumbers, ops |-> currentOps]
  ELSE IF currentOps[i] \in {"multiplication", "division"}
       THEN Pass1Skip(Splice(currentNumbers, i, 2,
                             Reduce(currentOps[i], currentNumbers[i],
                                    currentNumbers[i + 1])),
                      SpliceOut(currentOps, i), i + 1)
       ELSE Pass1Skip(currentNumbers, currentOps, i + 1)

\* Pass 1: the loop over currentOps from (1-based) index i on
RECURSIVE Pass1(_, _, _)
Pass1(currentNumbers, currentOps, i) ==
  IF i > Len(currentOps) THEN [numbers |-> currentNumbers, ops |-> currentOps]
  ELSE IF currentOps[i] \in {"multiplication", "division"}
       THEN Pass1(Splice(currentNumbers, i, 2,
                         Reduce(currentOps[i], currentNumbers[i],
                                currentNumbers[i + 1])),
                  SpliceOut(currentOps, i), i)
       ELSE Pass1(currentNumbers, currentOps, i + 1)

\* Pass 2 testing the sign of the running result after the last step only
RECURSIVE Pass2FinalOnly(_, _, _, _, _)
Pass2FinalOnly(currentNumbers, currentOps, i, result, hasNegativeIntermediate) ==
  IF i > Len(currentOps)
  THEN [result |-> result, hasNegativeIntermediate |-> hasNegativeIntermediate]
  ELSE LET n2 == currentNumbers[i + 1]
           r  == IF currentOps[i] = "addition" THEN RAdd(result, n2)
                 ELSE IF currentOps[i] = "subtraction" THEN RSub(result, n2)
                 ELSE result
       IN  Pass2FinalOnly(currentNumbers, currentOps, i + 1, r,
                          IF i = Len(currentOps) THEN RLess(r, Zero)
                          ELSE FALSE)

\* Pass 2 without the sign test inside the loop
RECURSIVE Pass2InitialOnly(_, _, _, _, _)
Pass2InitialOnly(currentNumbers, currentOps, i, result, hasNegativeIntermediate) ==
  IF i > Len(currentOps)
  THEN [result |-> result, hasNegativeIntermediate |-> hasNegativeIntermediate]
  ELSE LET n2 == currentNumbers[i + 1]
           r  == IF currentOps[i] = "addition" THEN RAdd(result, n2)
                 ELSE IF currentOps[i] = "subtraction" THEN RSub(result, n2)
                 ELSE result
       IN  Pass2InitialOnly(currentNumbers, currentOps, i + 1, r,
                            hasNegativeIntermediate)

\* Pass 2: the loop over the remaining operators from index i on
RECURSIVE Pass2(_, _, _, _, _)
Pass2(currentNumbers, currentOps, i, result, hasNegativeIntermediate) ==
  IF i > Len(currentOps)
  THEN [result |-> result, hasNegativeIntermediate |-> hasNegativeIntermediate]
  ELSE LET n2 == currentNumbers[i + 1]
           r  == IF currentOps[i] = "addition" THEN RAdd(result, n2)
                 ELSE IF currentOps[i] = "subtraction" THEN RSub(result, n2)
                 ELSE result
       IN  Pass2(currentNumbers, currentOps, i + 1, r,
                 hasNegativeIntermediate \/ RLess(r, Zero))

\* Math.round(result * 100) / 100
Round2(result) == RDiv(MathRound(RMul(result, Num(100))), Num(100))

\* The evaluator working on the caller's arrays instead of copies of them
evaluateInPlace(numbers, operators) ==
  LET p1 == Pass1(numbers, operators, 1)
      p2 == Pass2(p1.numbers, p1.ops, 1, p1.numbers[1],
                  RLess(p1.numbers[1], Zero))
  IN  [result |-> Round2(p2.result),
       hasNegativeIntermediate |-> p2.hasNegativeIntermediate,
       numbers |-> p1.numbers, operators |-> p1.ops]

\* The call evaluateExpressionExtended(numbers, operators): the returned
\* object, and the contents of the two argument arrays after the call (the
\* passes splice currentNumbers and currentOps, which are spread copies).
evaluateExpressionExtended(numbers, operators) ==
  LET p1 == Pass1(numbers, operators, 1)
      p2 == Pass2(p1.numbers, p1.ops, 1, p1.numbers[1],
                  RLess(p1.numbers[1], Zero))
  IN  [result |-> Round2(p2.result),
       hasNegativeIntermediate |-> p2.hasNegativeIntermediate,
       numbers |-> numbers, operators |-> operators]

----------------------------------------------------------------------------
(* calculateRating *)

\* the rating with avgTime <= 8 for avgTime < 8
calculateRatingInclusive(score, total, timeInSeconds) ==
  LET accuracy == RMul(RDiv(Num(score), Num(total)), Num(100))
      avgTime  == RDiv(Num(timeInSeconds), Num(total))
  IN  IF accuracy = Num(100)
      THEN IF RLess(avgTime, Num(4))
           THEN [grade |-> "SSS", color |-> "text-yellow-500"]
           ELSE IF RLess(avgTime, Num(7))
                THEN [grade |-> "S", color |-> "text-orange-500"]
                ELSE [grade |-> "A+", color |-> "text-indigo-500"]
      ELSE IF ~RLess(accuracy, Num(90))
      THEN IF ~RLess(Num(8), avgTime)
           THEN [grade |-> "A", color |-> "text-indigo-400"]
           ELSE [grade |-> "B+", color |-> "text-emerald-500"]
      ELSE IF ~RLess(accuracy, Num(80))
      THEN [grade |-> "B", color |-> "text-emerald-400"]
      ELSE IF ~RLess(accuracy, Num(60))
      THEN [grade |-> "C", color |-> "text-slate-400"]
      ELSE [grade |-> "D", color |-> "text-rose-400"]

calculateRating(score, total, timeInSeconds) ==
  LET accuracy == RMul(RDiv(Num(score), Num(total)), Num(100))
      avgTime  == RDiv(Num(timeInSeconds), Num(total))
  IN  IF accuracy = Num(100)
      THEN IF RLess(avgTime, Num(4))
           THEN [grade |-> "SSS", color |-> "text-yellow-500"]
           ELSE IF RLess(avgTime, Num(7))
                THEN [grade |-> "S", color |-> "text-orange-500"]
                ELSE [grade |-> "A+", color |-> "text-indigo-500"]
      ELSE IF ~RLess(accuracy, Num(90))
      THEN IF RLess(avgTime, Num(8))
           THEN [grade |-> "A", color |-> "text-indigo-400"]
           ELSE [grade |-> "B+", color |-> "text-emerald-500"]
      ELSE IF ~RLess(accuracy, Num(80))
      THEN [grade |-> "B", color |-> "text-emerald-400"]
      ELSE IF ~RLess(accuracy, Num(60))
      THEN [grade |-> "C", color |-> "text-slate-400"]
      ELSE [grade |-> "D", color |-> "text-rose-400"]

----------------------------------------------------------------------------
(* Idle values of the parts a specification does not exercise *)

NoProblem == [id |-> "none", expression |-> "", correctAnswer |-> Zero,
              userAnswer |-> "", isCorrect |-> "null",
              numbers |-> <<>>, ops |-> <<>>]

NoConfig == [min |-> 0, max |-> 0, operandCount |-> 2,
             operators |-> <<"addition">>, mixedOperations |-> FALSE,
             allowNegative |-> TRUE, integerDivisionOnly |-> FALSE,
             quantity |-> 0]

GenIdle ==
  /\ config = NoConfig /\ pc = "idle" /\ problems = <<>> /\ seen = {}
  /\ setAttempts = 0 /\ fillCalls = 0 /\ gpc = "idle" /\ attempts = 0
  /\ rejected = 0 /\ ret = NoProblem

EvIdle == [numbers |-> <<>>, operators |-> <<>>, numbers0 |-> <<>>,
           operators0 |-> <<>>, outs |-> <<>>]

NoRating == [grade |-> "none", color |-> ""]

RtIdle == [score |-> 0, total |-> 1, time |-> 0, out |-> NoRating]

----------------------------------------------------------------------------
(* generateSingleProblem *)

MaxSingleAttempts == 200

MaxMultiplier == 10

getOperatorSymbol(op) ==
  CASE op = "addition" -> "+"
    [] op = "subtraction" -> "-"
    [] op = "multiplication" -> "×"
    [] op = "division" -> "÷"

DigitChar(d) ==
  CASE d = 0 -> "0" [] d = 1 -> "1" [] d = 2 -> "2" [] d = 3 -> "3"
    [] d = 4 -> "4" [] d = 5 -> "5" [] d = 6 -> "6" [] d = 7 -> "7"
    [] d = 8 -> "8" [] d = 9 -> "9"

\* decimal digits of a natural number
RECURSIVE NatToStr(_)
NatToStr(n) ==
  IF n < 10 THEN DigitChar(n) ELSE NatToStr(n \div 10) \o DigitChar(n % 10)

\* string conversion of a number in `expression += numbers[i]`; operands
\* are integers, a fraction is written n/d
NumToStr(x) ==
  LET int == IF x[1] < 0 THEN "-" \o NatToStr(-x[1]) ELSE NatToStr(x[1])
  IN  IF x[2] = 1 THEN int ELSE int \o "/" \o NatToStr(x[2])

\* the rendering loop from index i on
RECURSIVE Render(_, _, _)
Render(numbers, ops, i) ==
  IF i > Len(numbers) THEN ""
  ELSE NumToStr(numbers[i])
       \o (IF i <= Len(ops) THEN " " \o getOperatorSymbol(ops[i]) \o " "
           ELSE "")
       \o Render(numbers, ops, i + 1)

Range(s) == {s[k] : k \in 1..Len(s)}

\* results of [...selectedOps].sort(() => Math.random() - 0.5): the order a
\* random comparator leaves is any rearrangement of the array
Shuffles(s) ==
  {[k \in 1..Len(s) |-> s[f[k]]] :
     f \in {g \in [1..Len(s) -> 1..Len(s)] :
              \A a, b \in 1..Len(s) : a # b => g[a] # g[b]}}

\* the operator loop cycling through the operators without mixedOperations
ChooseOpsCycling(cfg, baseOp, mixedPool, extras) ==
  [i \in 1..(cfg.operandCount - 1) |->
     IF cfg.mixedOperations
     THEN IF i <= Len(mixedPool) THEN mixedPool[Len(mixedPool) - i + 1]
          ELSE extras[i]
     ELSE cfg.operators[((i - 1) % Len(cfg.operators)) + 1]]

\* the operator loop reading the end of the pool without removing it
ChooseOpsPeek(cfg, baseOp, mixedPool, extras) ==
  [i \in 1..(cfg.operandCount - 1) |->
     IF cfg.mixedOperations
     THEN IF i <= Len(mixedPool) THEN mixedPool[Len(mixedPool)]
          ELSE extras[i]
     ELSE baseOp]

\* the operator loop: slot i pops the pool while it lasts, then draws afresh
\* (extras[i]); without mixedOperations every slot is baseOp
ChooseOps(cfg, baseOp, mixedPool, extras) ==
  [i \in 1..(cfg.operandCount - 1) |->
     IF cfg.mixedOperations
     THEN IF i <= Len(mixedPool) THEN mixedPool[Len(mixedPool) - i + 1]
          ELSE extras[i]
     ELSE baseOp]

\* the operands left as sampled
SwapFixNever(cfg, numbers, ops) == numbers

\* the 2-operand subtraction swap
SwapFix(cfg, numbers, ops) ==
  IF ~cfg.allowNegative /\ cfg.operandCount = 2 /\ ops[1] = "subtraction"
     /\ numbers[1] < numbers[2]
  THEN <<numbers[2], numbers[1]>>
  ELSE numbers

\* the division fix-up loop leaving a zero right operand as it is
RECURSIVE DivisionFixKeepZero(_, _, _, _)
DivisionFixKeepZero(numbers, ops, multiplier, i) ==
  IF i > Len(ops) THEN numbers
  ELSE IF ops[i] = "division"
       THEN LET fixed == [numbers EXCEPT
                            ![i] = numbers[i + 1] * multiplier[i]]
            IN  DivisionFixKeepZero(fixed, ops, multiplier, i + 1)
       ELSE DivisionFixKeepZero(numbers, ops, multiplier, i + 1)

\* the division fix-up loop from slot i on; multiplier[i] is the draw made
\* at slot i
RECURSIVE DivisionFix(_, _, _, _)
DivisionFix(numbers, ops, multiplier, i) ==
  IF i > Len(ops) THEN numbers
  ELSE IF ops[i] = "division"
       THEN LET right == IF numbers[i + 1] = 0 THEN 1 ELSE numbers[i + 1]
                fixed == [numbers EXCEPT ![i + 1] = right,
                                         ![i] = right * multiplier[i]]
            IN  DivisionFix(fixed, ops, multiplier, i + 1)
       ELSE DivisionFix(numbers, ops, multiplier, i + 1)

DivisionSlots(cfg, ops) ==
  IF cfg.integerDivisionOnly
  THEN {i \in 1..Len(ops) : ops[i] = "division"}
  ELSE {}

\* the non-negativity test without the intermediate flag
RejectedFinalOnly(cfg, result, hasNegativeIntermediate) ==
  \/ ~cfg.allowNegative /\ RLess(result, Zero)
  \/ cfg.integerDivisionOnly /\ ~NumberIsInteger(result)

\* the constraint tests without the integer test
RejectedNoIntegerTest(cfg, result, hasNegativeIntermediate) ==
  ~cfg.allowNegative /\ (RLess(result, Zero) \/ hasNegativeIntermediate)

\* the non-negativity test applied whatever allowNegative says
RejectedAnyNegative(cfg, result, hasNegativeIntermediate) ==
  \/ RLess(result, Zero) \/ hasNegativeIntermediate
  \/ cfg.integerDivisionOnly /\ ~NumberIsInteger(result)

\* the two `continue` tests
Rejected(cfg, result, hasNegativeIntermediate) ==
  \/ ~cfg.allowNegative /\ (RLess(result, Zero) \/ hasNegativeIntermediate)
  \/ cfg.integerDivisionOnly /\ ~NumberIsInteger(result)

\* The loop body evaluating the operands as sampled, before the fix-ups
CandidateEvaluatedFirst(cfg, sampled, ops, multiplier) ==
  LET swapped == SwapFix(cfg, sampled, ops)
      numbers == IF cfg.integerDivisionOnly
                 THEN DivisionFix(swapped, ops, multiplier, 1)
                 ELSE swapped
      r == evaluateExpressionExtended(
             [k \in 1..Len(sampled) |-> Num(sampled[k])], ops)
  IN  [numbers |-> [k \in 1..Len(numbers) |-> Num(numbers[k])],
       ops |-> r.operators, result |-> r.result,
       hasNegativeIntermediate |-> r.hasNegativeIntermediate]

\* One pass through the loop body up to the constraint tests: the arrays
\* after the fix-ups and the evaluation, and the evaluator's output.
Candidate(cfg, sampled, ops, multiplier) ==
  LET swapped == SwapFix(cfg, sampled, ops)
      numbers == IF cfg.integerDivisionOnly
                 THEN DivisionFix(swapped, ops, multiplier, 1)
                 ELSE swapped
      r == evaluateExpressionExtended(
             [k \in 1..Len(numbers) |-> Num(numbers[k])], ops)
  IN  [numbers |-> r.numbers, ops |-> r.operators, result |-> r.result,
       hasNegativeIntermediate |-> r.hasNegativeIntermediate]

\* the returned object (the timestamp and the random id text are left out)
Problem(c) ==
  [id |-> "generated", expression |-> Render(c.numbers, c.ops, 1),
   correctAnswer |-> c.result, userAnswer |-> "", isCorrect |-> "null",
   numbers |-> c.numbers, ops |-> c.ops]

FallbackProblem ==
  [id |-> "fallback", expression |-> "1 + 1", correctAnswer |-> Num(2),
   userAnswer |-> "", isCorrect |-> "null", numbers |-> <<>>, ops |-> <<>>]

\* the loop test with <= for <
LoopConditionInclusive == attempts <= MaxSingleAttempts

\* while (attempts < 200)
LoopCondition == attempts < MaxSingleAttempts

\* the sampling range one too wide at the top
SampleRangeWide(cfg) == cfg.min..(cfg.max + 1)

\* the integers Math.floor(Math.random() * (max - min + 1)) + min can be
SampleRange(cfg) == cfg.min..cfg.max

\* Every candidate one pass through the loop body can build, over all
\* outcomes of its random draws: the operands, baseOp, the shuffled pool, the
\* fresh operator draws past the pool, and one multiplier per fixed-up
\* division slot.  (baseOp is used only without mixedOperations, the pool and
\* the fresh draws only with it; the draws that are not used are not varied.)
Candidates(cfg) ==
  UNION {
    LET ops == ChooseOps(cfg, d[2], d[3], d[4])
    IN  {Candidate(cfg, d[1], ops, multiplier) :
           multiplier \in [DivisionSlots(cfg, ops) -> 1..MaxMultiplier]} :
    d \in [1..cfg.operandCount -> SampleRange(cfg)]
          \X (IF cfg.mixedOperations THEN {cfg.operators[1]}
              ELSE Range(cfg.operators))
          \X (IF cfg.mixedOperations THEN Shuffles(cfg.operators)
              ELSE {cfg.operators})
          \X [(IF cfg.mixedOperations THEN Len(cfg.operators) + 1 ELSE 1)
              ..(IF cfg.mixedOperations THEN cfg.operandCount - 1 ELSE 0)
              -> Range(cfg.operators)] }

\* one iteration of the while loop of generateSingleProblem
Attempt ==
  /\ gpc = "loop"
  /\ LoopCondition
  /\ attempts' = attempts + 1
  /\ \E c \in Candidates(config) :
       IF Rejected(config, c.result, c.hasNegativeIntermediate)
       THEN /\ rejected' = rejected + 1
            /\ UNCHANGED <<gpc, ret>>
       ELSE /\ gpc' = "return"
            /\ ret' = Problem(c)
            /\ UNCHANGED rejected
  /\ UNCHANGED <<config, pc, problems, seen, setAttempts, fillCalls, ev, rt>>

\* the loop ran out: the fixed fallback
Fallback ==
  /\ gpc = "loop"
  /\ ~LoopCondition
  /\ gpc' = "return"
  /\ ret' = FallbackProblem
  /\ UNCHANGED <<config, pc, problems, seen, setAttempts, fillCalls,
                 attempts, rejected, ev, rt>>

----------------------------------------------------------------------------
(* generateProblemSet *)

AttemptFactor == 50

maxAttempts(cfg) == cfg.quantity * AttemptFactor

DedupCondition ==
  Len(problems) < config.quantity /\ setAttempts < maxAttempts(config)

\* first loop: call generateSingleProblem
DedupCall ==
  /\ pc = "dedup" /\ DedupCondition
  /\ pc' = "dedupWait"
  /\ gpc' = "loop" /\ attempts' = 0 /\ rejected' = 0
  /\ UNCHANGED <<config, problems, seen, setAttempts, fillCalls, ret, ev, rt>>

\* the first loop without its attempts++
DedupReturnNoCount ==
  /\ pc = "dedupWait" /\ gpc = "return"
  /\ IF ret.expression \notin seen
     THEN /\ seen' = seen \cup {ret.expression}
          /\ problems' = Append(problems, ret)
     ELSE UNCHANGED <<seen, problems>>
  /\ pc' = "dedup"
  /\ gpc' = "idle" /\ attempts' = 0 /\ rejected' = 0 /\ ret' = NoProblem
  /\ UNCHANGED <<config, setAttempts, fillCalls, ev, rt>>

\* the first loop pushing without the seen test
DedupReturnNoSeen ==
  /\ pc = "dedupWait" /\ gpc = "return"
  /\ seen' = seen \cup {ret.expression}
  /\ problems' = Append(problems, ret)
  /\ setAttempts' = setAttempts + 1
  /\ pc' = "dedup"
  /\ gpc' = "idle" /\ attempts' = 0 /\ rejected' = 0 /\ ret' = NoProblem
  /\ UNCHANGED <<config, fillCalls, ev, rt>>

\* first loop: the rest of the body, with the returned problem
DedupReturn ==
  /\ pc = "dedupWait" /\ gpc = "return"
  /\ IF ret.expression \notin seen
     THEN /\ seen' = seen \cup {ret.expression}
          /\ problems' = Append(problems, ret)
     ELSE UNCHANGED <<seen, problems>>
  /\ setAttempts' = setAttempts + 1
  /\ pc' = "dedup"
  /\ gpc' = "idle" /\ attempts' = 0 /\ rejected' = 0 /\ ret' = NoProblem
  /\ UNCHANGED <<config, fillCalls, ev, rt>>

DedupExit ==
  /\ pc = "dedup" /\ ~DedupCondition
  /\ pc' = "fill"
  /\ UNCHANGED <<config, problems, seen, setAttempts, fillCalls,
                 gpc, attempts, rejected, ret, ev, rt>>

\* second loop: call generateSingleProblem
FillCall ==
  /\ pc = "fill" /\ Len(problems) < config.quantity
  /\ pc' = "fillWait"
  /\ fillCalls' = fillCalls + 1
  /\ gpc' = "loop" /\ attempts' = 0 /\ rejected' = 0
  /\ UNCHANGED <<config, problems, seen, setAttempts, ret, ev, rt>>

\* second loop: push the returned problem
FillReturn ==
  /\ pc = "fillWait" /\ gpc = "return"
  /\ problems' = Append(problems, ret)
  /\ pc' = "fill"
  /\ gpc' = "idle" /\ attempts' = 0 /\ rejected' = 0 /\ ret' = NoProblem
  /\ UNCHANGED <<config, seen, setAttempts, fillCalls, ev, rt>>

\* returning without waiting for the second loop to fill the list
ReturnUnfilled ==
  /\ pc = "fill"
  /\ pc' = "done"
  /\ UNCHANGED <<config, problems, seen, setAttempts, fillCalls,
                 gpc, attempts, rejected, ret, ev, rt>>

\* return problems
Return ==
  /\ pc = "fill" /\ ~(Len(problems) < config.quantity)
  /\ pc' = "done"
  /\ UNCHANGED <<config, problems, seen, setAttempts, fillCalls,
                 gpc, attempts, rejected, ret, ev, rt>>

----------------------------------------------------------------------------
(* The configurations generateProblemSet is run on *)

Cfg(lo, hi, count, operators, mixed, negative, intDiv, quantity) ==
  [min |-> lo, max |-> hi, operandCount |-> count, operators |-> operators,
   mixedOperations |-> mixed, allowNegative |-> negative,
   integerDivisionOnly |-> intDiv, quantity |-> quantity]

\* few expressions: run with every quantity in 0..MaxQuantity
SmallConfigs ==
  {Cfg(1, 1, 2, <<"subtraction">>, FALSE, FALSE, FALSE, q) :
     q \in 0..MaxQuantity}
  \cup {Cfg(0 - 2, 0 - 1, 2, <<"subtraction">>, FALSE, FALSE, FALSE, q) :
     q \in 0..MaxQuantity}

FixedConfigs ==
  { Cfg(1, 2, 2, <<"subtraction">>, FALSE, FALSE, FALSE, 5),
    Cfg(1, 2, 3, <<"subtraction">>, FALSE, FALSE, FALSE, 2),
    Cfg(0, 1, 3, <<"division">>, FALSE, TRUE, TRUE, 1),
    Cfg(21, 22, 3, <<"division">>, FALSE, TRUE, TRUE, 1),
    Cfg(0 - 1, 1, 3, <<"subtraction", "multiplication">>,
        FALSE, TRUE, FALSE, 1),
    Cfg(0, 1, 3, <<"subtraction", "multiplication", "division">>,
        TRUE, FALSE, TRUE, 1),
    Cfg(1, 2, 4, <<"addition", "subtraction">>, TRUE, FALSE, FALSE, 1),
    Cfg(0, 1, 2, <<"addition", "multiplication">>, FALSE, TRUE, FALSE, 2) }

Configs == SmallConfigs \cup FixedConfigs

Init ==
  /\ config \in Configs
  /\ pc = "dedup" /\ problems = <<>> /\ seen = {} /\ setAttempts = 0
  /\ fillCalls = 0
  /\ gpc = "idle" /\ attempts = 0 /\ rejected = 0 /\ ret = NoProblem
  /\ ev = EvIdle /\ rt = RtIdle

Next ==
  \/ DedupCall \/ DedupReturn \/ DedupExit
  \/ FillCall \/ FillReturn \/ Return
  \/ Attempt \/ Fallback

Spec == Init /\ [][Next]_vars

\* Fairness.  The function runs on while it has a step to take.  For the
\* loop of generateSingleProblem this is stated on LoopTurn, which has the
\* guard of Attempt (a well-formed config always has a candidate to draw, so
\* Attempt is enabled exactly when LoopTurn is): the loop does not rest
\* forever before an iteration it can start.
SetStep ==
  DedupCall \/ DedupReturn \/ DedupExit \/ FillCall \/ FillReturn \/ Return

LoopTurn ==
  /\ gpc = "loop" /\ LoopCondition
  /\ attempts' = attempts + 1
  /\ UNCHANGED <<config, pc, problems, seen, setAttempts, fillCalls,
                 gpc, rejected, ret, ev, rt>>

FairSpec ==
  Spec /\ WF_vars(SetStep) /\ WF_vars(Fallback) /\ WF_vars(LoopTurn)

----------------------------------------------------------------------------
(* Evaluator harness: a caller that holds two arrays and evaluates them    *)
(* twice, as generateSingleProblem does once per candidate.                *)

EvalOperands == (0 - EvalNeg)..EvalMax

EvalInit ==
  /\ GenIdle
  /\ rt = RtIdle
  /\ \E n \in 1..MaxLen :
       \E nums \in [1..n -> EvalOperands], os \in [1..(n - 1) -> Operators] :
         ev = [numbers |-> [k \in 1..n |-> Num(nums[k])], operators |-> os,
               numbers0 |-> nums, operators0 |-> os, outs |-> <<>>]

Evaluate ==
  /\ Len(ev.operators0) = Len(ev.numbers0) - 1
  /\ Len(ev.outs) < 2
  /\ LET r == evaluateExpressionExtended(ev.numbers, ev.operators)
     IN  ev' = [ev EXCEPT !.numbers = r.numbers, !.operators = r.operators,
                          !.outs = Append(@, [result |-> r.result,
                              hasNegativeIntermediate |->
                                r.hasNegativeIntermediate])]
  /\ UNCHANGED <<genVars, rt>>

EvalNext == Evaluate

SpecEval == EvalInit /\ [][EvalNext]_vars

----------------------------------------------------------------------------
(* Rating harness *)

RateInit ==
  /\ GenIdle
  /\ ev = EvIdle
  /\ \E total \in 1..MaxTotal, score \in 0..MaxTotal,
        time \in 0..(MaxAvg * MaxTotal) :
       rt = [score |-> score, total |-> total, time |-> time, out |-> NoRating]

Rate ==
  /\ rt.out = NoRating
  /\ rt' = [rt EXCEPT !.out = calculateRating(rt.score, rt.total, rt.time)]
  /\ UNCHANGED <<genVars, ev>>

RateNext == Rate

SpecRate == RateInit /\ [][RateNext]_vars

----------------------------------------------------------------------------
(* Properties of the evaluator *)

AddSub == {"addition", "subtraction"}

MulDiv == {"multiplication", "division"}

\* Reference: value of a product chain, folded from the left, x / 0 = 0
RECURSIVE RefTerm(_, _)
RefTerm(nums, os) ==
  IF Len(os) = 0 THEN Num(nums[1])
  ELSE LET n    == Len(nums)
           left == RefTerm(SubSeq(nums, 1, n - 1), SubSeq(os, 1, n - 2))
       IN  IF os[n - 1] = "multiplication" THEN RMul(left, Num(nums[n]))
           ELSE IF nums[n] = 0 THEN Zero ELSE RDiv(left, Num(nums[n]))

\* Reference: standard precedence, split at the last additive operator
RECURSIVE RefExpr(_, _)
RefExpr(nums, os) ==
  LET adds == {k \in 1..Len(os) : os[k] \in AddSub}
  IN  IF adds = {} THEN RefTerm(nums, os)
      ELSE LET k     == CHOOSE j \in adds : \A l \in adds : l <= j
               left  == RefExpr(SubSeq(nums, 1, k), SubSeq(os, 1, k - 1))
               right == RefTerm(SubSeq(nums, k + 1, Len(nums)),
                                SubSeq(os, k + 1, Len(os)))
           IN  IF os[k] = "addition" THEN RAdd(left, right)
               ELSE RSub(left, right)

\* C6: the evaluator's result equals the reference evaluator's value
\* (standard precedence, left-associative, x / 0 = 0) rounded to 2 decimals;
\* evaluate([6,3],[multiplication]) = 18, evaluate([2,5],[subtraction]) = -3.
C6_MatchesReference ==
  /\ evaluateExpressionExtended(<<Num(6), Num(3)>>,
                                <<"multiplication">>).result = Num(18)
  /\ evaluateExpressionExtended(<<Num(2), Num(5)>>,
                                <<"subtraction">>).result = Num(-3)
  /\ Len(ev.outs) >= 1 =>
       ev.outs[1].result = Round2(RefExpr(ev.numbers0, ev.operators0))

\* an evaluated input mixing both precedence levels after a reduction
C6_Witness ==
  /\ Len(ev.outs) >= 1
  /\ Len(ev.operators0) = 2
  /\ ev.operators0[1] = "subtraction" /\ ev.operators0[2] = "division"
  /\ ev.outs[1].result = <<367, 100>>

\* slots k whose division has a zero right operand and only multiply/divide
\* operators to its left
ZeroDivSlots(nums, os) ==
  {k \in 1..Len(os) : /\ os[k] = "division" /\ nums[k + 1] = 0
                      /\ \A j \in 1..k : os[j] \in MulDiv}

\* C7: a division by a zero right operand yields 0, never a non-finite
\* value, and evaluation goes on with that 0: the result is the one of the
\* rest of the sequence with 0 in place of the reduced prefix, and a chain of
\* multiply/divide operators through a division by zero evaluates to 0.
C7_ZeroDivisorIsZero ==
  Len(ev.outs) >= 1 =>
    /\ IsFinite(ev.outs[1].result)
    /\ \A k \in ZeroDivSlots(ev.numbers0, ev.operators0) :
         LET n    == Len(ev.numbers0)
             rest == <<Zero>> \o [j \in 1..(n - k - 1) |->
                                    Num(ev.numbers0[k + 1 + j])]
             ros  == SubSeq(ev.operators0, k + 1, n - 1)
             r    == evaluateExpressionExtended(rest, ros)
         IN  /\ ev.outs[1].result = r.result
             /\ ev.outs[1].hasNegativeIntermediate = r.hasNegativeIntermediate
             /\ (\A j \in 1..(n - 1) : ev.operators0[j] \in MulDiv)
                  => ev.outs[1].result = Zero

\* a / 0 * c with a, c non-zero has been evaluated
C7_Witness ==
  /\ Len(ev.outs) >= 1
  /\ ev.operators0 = <<"division", "multiplication">>
  /\ ev.numbers0[1] # 0 /\ ev.numbers0[2] = 0 /\ ev.numbers0[3] # 0
  /\ ev.outs[1].result = Zero

----------------------------------------------------------------------------
(* Properties of the rating *)

\* the decision table over accuracy = score/total*100 and avgTime =
\* time/total, with both comparisons cleared of their denominators
TableGrade(score, total, time) ==
  CASE score * 100 = 100 * total /\ time < 4 * total -> "SSS"
    [] score * 100 = 100 * total /\ time >= 4 * total /\ time < 7 * total -> "S"
    [] score * 100 = 100 * total /\ time >= 7 * total -> "A+"
    [] score * 100 # 100 * total /\ score * 100 >= 90 * total
         /\ time < 8 * total -> "A"
    [] score * 100 # 100 * total /\ score * 100 >= 90 * total
         /\ time >= 8 * total -> "B+"
    [] score * 100 < 90 * total /\ score * 100 >= 80 * total -> "B"
    [] score * 100 < 80 * total /\ score * 100 >= 60 * total -> "C"
    [] score * 100 < 60 * total -> "D"

\* C8: calculateRating returns the grade of the decision table;
\* rate(10,10,30) = SSS, rate(9,10,80) = B+, rate(5,10,100) = D.
C8_RatingTable ==
  /\ calculateRating(10, 10, 30).grade = "SSS"
  /\ calculateRating(9, 10, 80).grade = "B+"
  /\ calculateRating(5, 10, 100).grade = "D"
  /\ rt.out # NoRating =>
       rt.out.grade = TableGrade(rt.score, rt.total, rt.time)

\* the boundary of the second rung: accuracy exactly 90, avgTime exactly 8
C8_Witness ==
  /\ rt.out # NoRating
  /\ rt.score * 10 = 9 * rt.total /\ rt.time = 8 * rt.total
  /\ rt.out.grade = "B+"

----------------------------------------------------------------------------
(* Properties of generateProblemSet *)

\* C1: the returned list has exactly config.quantity elements.
C1_ExactLength == pc = "done" => Len(problems) = config.quantity

\* returned after the dedup loop used up its budget and the fill loop ran
C1_Witness ==
  /\ pc = "done" /\ config.quantity = 2
  /\ setAttempts = maxAttempts(config) /\ fillCalls = 1
  /\ Len(problems) = 2

\* C2: the dedup loop calls generateSingleProblem at most quantity*50 times,
\* the fill loop at most quantity more times, and the function returns.
C2_Terminates ==
  /\ [](setAttempts <= config.quantity * 50 /\ fillCalls <= config.quantity)
  /\ <>(pc = "done")

\* the constrained configuration min=1, max=2, 2 operands, subtraction,
\* quantity=5 has returned, after 250 dedup calls and 2 fill calls
C2_Witness ==
  /\ pc = "done"
  /\ config = Cfg(1, 2, 2, <<"subtraction">>, FALSE, FALSE, FALSE, 5)
  /\ setAttempts = 250 /\ fillCalls = 2

----------------------------------------------------------------------------
(* Properties of generateSingleProblem *)

\* the problems handed out so far: those collected and the one just returned
Returned ==
  Range(problems) \cup (IF gpc = "return" THEN {ret} ELSE {})

Ints(numbers) == [k \in 1..Len(numbers) |-> numbers[k][1]]

\* the running values of the add/subtract pass, by the reference evaluator:
\* the values of the prefixes that end before an additive operator, and of
\* the whole sequence
RunningValues(nums, os) ==
  {RefExpr(SubSeq(nums, 1, k), SubSeq(os, 1, k - 1)) :
     k \in {j \in 1..Len(os) : os[j] \in AddSub} \cup {Len(nums)}}

\* the acceptance conditions of a candidate, stated on the returned problem
Acceptable(cfg, p) ==
  /\ cfg.allowNegative
       \/ \A v \in RunningValues(Ints(p.numbers), p.ops) : ~RLess(v, Zero)
  /\ cfg.integerDivisionOnly => p.correctAnswer[2] = 1

\* C3: generateSingleProblem returns after at most 200 attempts: the first
\* candidate that passes the constraint checks (every earlier one was
\* rejected), or the fallback "1 + 1" = 2 exactly when all 200 candidates
\* were rejected.
C3_FirstAcceptedOrFallback ==
  /\ attempts <= 200
  /\ gpc = "return" =>
       /\ ret.id \in {"generated", "fallback"}
       /\ ret.id = "fallback" <=> rejected = 200
       /\ ret.id = "fallback" =>
            ret.expression = "1 + 1" /\ ret.correctAnswer = Num(2)
       /\ ret.id = "generated" =>
            rejected = attempts - 1 /\ Acceptable(config, ret)

\* the fallback has been returned after 200 rejections, by a config that
\* also has acceptable candidates
C3_Witness ==
  /\ gpc = "return" /\ ret.id = "fallback" /\ rejected = 200
  /\ config.min = 1 /\ config.operandCount = 3

\* C4: without allowNegative every returned problem has correctAnswer >= 0
\* and no negative running value in the add/subtract pass of its evaluation.
C4_NonNegative ==
  ~config.allowNegative =>
    \A p \in Returned :
      /\ ~RLess(p.correctAnswer, Zero)
      /\ p.id = "generated" =>
           \A v \in RunningValues(Ints(p.numbers), p.ops) : ~RLess(v, Zero)

\* a returned 4-operand problem with a subtraction before an addition
C4_Witness ==
  /\ ~config.allowNegative /\ gpc = "return" /\ ret.id = "generated"
  /\ Len(ret.ops) = 3
  /\ ret.ops[1] = "subtraction" /\ ret.ops[2] = "addition"
  /\ rejected > 0

\* C5: with integerDivisionOnly every returned problem has an integer
\* correctAnswer.
C5_IntegerAnswer ==
  config.integerDivisionOnly =>
    \A p \in Returned : p.correctAnswer[2] = 1

\* a returned chain of two divisions, after a non-integer candidate
C5_Witness ==
  /\ config.integerDivisionOnly /\ gpc = "return" /\ ret.id = "generated"
  /\ ret.ops = <<"division", "division">>
  /\ rejected > 0

----------------------------------------------------------------------------
(* Deduplication *)

Distinct(ps) ==
  \A a, b \in 1..Len(ps) : a # b => ps[a].expression # ps[b].expression

\* C9: during the dedup loop the collected problems have pairwise distinct
\* expressions; a returned list holds one expression twice only if the dedup
\* loop used all quantity*50 attempts without collecting quantity problems.
C9_DedupDistinct ==
  /\ pc \in {"dedup", "dedupWait"} => Distinct(problems)
  /\ (pc = "done" /\ ~Distinct(problems)) =>
       /\ setAttempts = config.quantity * 50
       /\ fillCalls > 0

\* a returned list with one expression twice
C9_Witness ==
  /\ pc = "done" /\ Len(problems) = 2
  /\ problems[1].expression = "1 - 1" /\ problems[2].expression = "1 - 1"

----------------------------------------------------------------------------
(* Division under integerDivisionOnly *)

Generated == {p \in Returned : p.id = "generated"}

\* the value the reduction pass holds at operand i when it reaches slot i:
\* the product chain that ends at operand i
RECURSIVE ChainValue(_, _, _)
ChainValue(nums, os, i) ==
  IF i = 1 \/ os[i - 1] \in AddSub THEN Num(nums[i])
  ELSE LET left == ChainValue(nums, os, i - 1)
       IN  IF os[i - 1] = "multiplication" THEN RMul(left, Num(nums[i]))
           ELSE IF nums[i] = 0 THEN Zero ELSE RDiv(left, Num(nums[i]))

\* the division at slot i divides an integer multiple of its right operand
ExactDivision(nums, os, i) ==
  /\ nums[i + 1] # 0
  /\ RDiv(ChainValue(nums, os, i), Num(nums[i + 1]))[2] = 1

\* C11: with integerDivisionOnly, in every returned non-fallback problem
\* every division divides an integer multiple of its right operand.
C11_ExactQuotients ==
  config.integerDivisionOnly =>
    \A p \in Generated :
      \A i \in 1..Len(p.ops) :
        p.ops[i] = "division" => ExactDivision(Ints(p.numbers), p.ops, i)

----------------------------------------------------------------------------
(* Operands and operators of the returned problems *)

InRange(cfg, x) == x[2] = 1 /\ cfg.min <= x[1] /\ x[1] <= cfg.max

\* operand k is the left or the right operand of a division slot
BesideDivision(os, k) ==
  \/ k <= Len(os) /\ os[k] = "division"
  \/ k > 1 /\ os[k - 1] = "division"

\* C12 as stated: every operand of a returned non-fallback problem is an
\* integer within [config.min, config.max], for every config.
C12_OperandsInRange ==
  \A p \in Generated :
    \A k \in 1..Len(p.numbers) : InRange(config, p.numbers[k])

\* C12 amended: every operand of a returned non-fallback problem is an
\* integer, and it lies within [config.min, config.max] unless
\* integerDivisionOnly is set and the operand stands beside a division slot.
C12_InRangeUnlessFixedUp ==
  \A p \in Generated :
    \A k \in 1..Len(p.numbers) :
      /\ p.numbers[k][2] = 1
      /\ InRange(config, p.numbers[k])
           \/ (config.integerDivisionOnly /\ BesideDivision(p.ops, k))

\* a returned problem with a fixed-up operand out of the range and an
\* operand away from the division
C12_Witness ==
  /\ config.integerDivisionOnly /\ gpc = "return" /\ ret.id = "generated"
  /\ \E k \in 1..Len(ret.numbers) :
       ~InRange(config, ret.numbers[k]) /\ BesideDivision(ret.ops, k)
  /\ \E k \in 1..Len(ret.numbers) : ~BesideDivision(ret.ops, k)

----------------------------------------------------------------------------
(* The 2-operand subtraction swap *)

SubtractionPair ==
  /\ config.operandCount = 2 /\ ~config.allowNegative
  /\ config.operators = <<"subtraction">>

\* every candidate so far was accepted at once, first operand >= second
AcceptedAtOnce ==
  /\ rejected = 0
  /\ gpc = "return" =>
       /\ attempts = 1 /\ ret.id = "generated"
       /\ ret.numbers[1][1] >= ret.numbers[2][1]
       /\ ~RLess(ret.correctAnswer, Zero)

\* C13 as stated: with 2 operands, allowNegative = false and operators =
\* {subtraction}, no candidate is rejected, generateSingleProblem returns on
\* its first attempt and never returns the fallback.
C13_SwapAcceptsFirst == SubtractionPair => AcceptedAtOnce

\* C13 amended: the same when config.min >= 0; and in any case a returned
\* non-fallback subtraction pair has first operand >= second and a
\* non-negative answer.
C13_SwapAcceptsNonNegative ==
  /\ (SubtractionPair /\ config.min >= 0) => AcceptedAtOnce
  /\ SubtractionPair =>
       \A p \in Generated :
         /\ p.numbers[1][1] >= p.numbers[2][1]
         /\ ~RLess(p.correctAnswer, Zero)

\* 2 - 1 returned on the first attempt
C13_Witness ==
  /\ SubtractionPair /\ config.min >= 0 /\ gpc = "return" /\ attempts = 1
  /\ ret.expression = "2 - 1"

----------------------------------------------------------------------------
(* Shape of the returned problems *)

\* C14: a returned non-fallback problem has operandCount operands and
\* operandCount - 1 operators, each one of config.operators, and without
\* mixedOperations all its operator slots hold the same operator.
C14_Shape ==
  \A p \in Generated :
    /\ Len(p.numbers) = config.operandCount
    /\ Len(p.ops) = config.operandCount - 1
    /\ \A i \in 1..Len(p.ops) : p.ops[i] \in Range(config.operators)
    /\ ~config.mixedOperations =>
         \A i, j \in 1..Len(p.ops) : p.ops[i] = p.ops[j]

\* two equal slots returned by a config with two operators to choose from
C14_Witness ==
  /\ ~config.mixedOperations /\ Len(config.operators) = 2
  /\ gpc = "return" /\ ret.id = "generated"
  /\ Len(ret.ops) = 2 /\ ret.ops[1] = ret.ops[2]

Min(a, b) == IF a < b THEN a ELSE b

\* C15: with mixedOperations and k operators configured, the first
\* min(operandCount - 1, k) operator slots are pairwise distinct.
C15_PoolSlotsDistinct ==
  config.mixedOperations =>
    \A p \in Generated :
      \A a, b \in 1..Min(Len(p.ops), Len(config.operators)) :
        a # b => p.ops[a] # p.ops[b]

\* a slot past the pool repeating an operator of the pool
C15_Witness ==
  /\ config.mixedOperations /\ gpc = "return" /\ ret.id = "generated"
  /\ Len(config.operators) = 2 /\ Len(ret.ops) = 3
  /\ ret.ops[3] = ret.ops[2]

----------------------------------------------------------------------------
(* The negative-intermediate flag *)

\* C16: the flag is true exactly when the first operand left by the
\* reduction pass, or the running value after some add/subtract step, is
\* negative; values inside the reduction pass do not count.
C16_FlagIffNegativeRunning ==
  Len(ev.outs) >= 1 =>
    (ev.outs[1].hasNegativeIntermediate
       <=> \E v \in RunningValues(ev.numbers0, ev.operators0) : RLess(v, Zero))

\* 2 * -1 * -1: a negative product inside the reduction pass, flag false
C16_Witness ==
  /\ Len(ev.outs) >= 1
  /\ ev.numbers0 = <<2, 0 - 1, 0 - 1>>
  /\ ev.operators0 = <<"multiplication", "multiplication">>
  /\ ~ev.outs[1].hasNegativeIntermediate

NonNegativeOnly == [NoConfig EXCEPT !.allowNegative = FALSE]

\* C17: a negative returned result comes with the flag set, so with
\* allowNegative = false the constraint test rejects exactly the outputs
\* whose flag is set.
C17_NegativeResultFlagged ==
  Len(ev.outs) >= 1 =>
    /\ RLess(ev.outs[1].result, Zero) => ev.outs[1].hasNegativeIntermediate
    /\ Rejected(NonNegativeOnly, ev.outs[1].result,
                ev.outs[1].hasNegativeIntermediate)
         <=> ev.outs[1].hasNegativeIntermediate

\* a negative result reached by a subtraction from a non-negative start
C17_Witness ==
  /\ Len(ev.outs) >= 1
  /\ ev.numbers0[1] >= 0 /\ Len(ev.operators0) >= 1
  /\ ev.operators0[Len(ev.operators0)] = "subtraction"
  /\ RLess(ev.outs[1].result, Zero)
  /\ ev.outs[1].hasNegativeIntermediate

----------------------------------------------------------------------------
(* Zero divisors under integerDivisionOnly *)

\* some division slot of the arrays has the right operand zero
ZeroDivisor(c) ==
  \E i \in 1..Len(c.ops) : c.ops[i] = "division" /\ c.numbers[i + 1] = Zero

\* C18: with integerDivisionOnly no candidate the loop can evaluate, and no
\* returned non-fallback problem, has a division by a zero right operand.
C18_NoZeroDivisor ==
  config.integerDivisionOnly =>
    /\ (gpc = "loop" /\ LoopCondition) =>
         \A c \in Candidates(config) : ~ZeroDivisor(c)
    /\ \A p \in Generated : ~ZeroDivisor(p)

\* a chain of two divisions returned from a range that holds 0
C18_Witness ==
  /\ config.integerDivisionOnly /\ config.min = 0
  /\ gpc = "return" /\ ret.id = "generated"
  /\ ret.ops = <<"division", "division">>
  /\ rejected > 0

----------------------------------------------------------------------------
(* Unconstrained configurations *)

Unconstrained == config.allowNegative /\ ~config.integerDivisionOnly

\* C19: with allowNegative and without integerDivisionOnly the first
\* candidate is accepted: no retry, no fallback, and an expression "1 + 1" in
\* the set is a sampled 1 + 1.
C19_FirstCandidateAccepted ==
  Unconstrained =>
    /\ rejected = 0 /\ attempts <= 1
    /\ gpc = "return" => attempts = 1
    /\ \A p \in Returned :
         /\ p.id = "generated"
         /\ p.expression = "1 + 1" =>
              p.numbers = <<Num(1), Num(1)>> /\ p.ops = <<"addition">>

\* a returned set holding a sampled 1 + 1
C19_Witness ==
  /\ Unconstrained /\ pc = "done"
  /\ \E k \in 1..Len(problems) : problems[k].expression = "1 + 1"

----------------------------------------------------------------------------
(* The answer and the rendered expression *)

SymbolText(op) ==
  IF op = "addition" THEN " + "
  ELSE IF op = "subtraction" THEN " - "
  ELSE IF op = "multiplication" THEN " × "
  ELSE " ÷ "

\* the text of an operand/operator sequence, built from its end
RECURSIVE ExprText(_, _)
ExprText(nums, os) ==
  IF Len(nums) = 1 THEN ToString(nums[1])
  ELSE ExprText(SubSeq(nums, 1, Len(nums) - 1), SubSeq(os, 1, Len(os) - 1))
       \o SymbolText(os[Len(os)]) \o ToString(nums[Len(nums)])

\* C20: the correctAnswer of a returned non-fallback problem is the value of
\* the operand/operator sequence its expression shows, which still has all
\* operandCount operands after the evaluation.
C20_AnswerOfRenderedSequence ==
  \A p \in Generated :
    /\ Len(p.numbers) = config.operandCount
    /\ \A k \in 1..Len(p.numbers) : p.numbers[k][2] = 1
    /\ p.expression = ExprText(Ints(p.numbers), p.ops)
    /\ p.correctAnswer = Round2(RefExpr(Ints(p.numbers), p.ops))

\* a returned chain of divisions whose first operand was fixed up
C20_Witness ==
  /\ gpc = "return" /\ ret.id = "generated"
  /\ ret.ops = <<"division", "division">>
  /\ ret.numbers[1][1] > config.max
  /\ ret.correctAnswer # Zero

====
